---------------------------- MODULE Spec2Model ----------------------------
(***************************************************************************)
(* Conway's Game of Life on WebGPU: the compute kernel (compute.wgsl), the *)
(* double-buffered tick loop and the print-buffer readback of the two      *)
(* drivers (demo/src/main.ts and presentation/components/GameOfLife.vue).  *)
(*                                                                         *)
(* The grid is scaled down.  GRID_SIZE is 64 in the demo and 32 in the     *)
(* component, both powers of two; the driver specification takes the       *)
(* powers of two up to MaxGridSize.  These are smaller than a workgroup,   *)
(* so a cell is stored by several invocations there, all with one value.   *)
(* The kernel specification runs the same tick on every grid size up to    *)
(* MaxKernelGrid and on every 0/1 read buffer with at most MaxKernelLive   *)
(* live cells.  The blinker specification seeds a three-in-a-row on grids  *)
(* of 5 x 5 up to MaxBlinkerGrid and ticks it with either driver.          *)
(***************************************************************************)
EXTENDS Integers, Sequences, FiniteSets, TLC

VARIABLES
    driver,               \* "demo" (main.ts) or "presentation" (GameOfLife.vue)
    gridSize,             \* the uniform gridSize : vec2f, [x |-> W, y |-> H]
    cellStateArray,       \* host scratch Uint32Array(GRID_SIZE * GRID_SIZE)
    cellStateStorage,     \* the two generation buffers, A = [0], B = [1]
    cellPrintState,       \* contents of the MAP_READ print buffer
    printMapState,        \* "unmapped" or "pending" (mapAsync called, not yet unmapped)
    step,                 \* the step counter
    printStateThisFrame,  \* the demo's capture flag
    frame,                \* output of this step: the cell states its render pass drew
    consoleLog,           \* output of this step: the console.log message, rows of glyphs
    seed,                 \* history: what the last reset wrote into buffer A
    lastTick              \* history: the last tick's counter, commands and fate

vars == <<driver, gridSize, cellStateArray, cellStateStorage, cellPrintState,
          printMapState, step, printStateThisFrame, frame, consoleLog, seed,
          lastTick>>

---------------------------------------------------------------------------
(* Bounds of the model *)

MaxGridSize == 4

MaxKernelGrid == 3

MaxStep == 2

MaxSeedDraws == 3

MaxKernelLive == 3

MaxKernelStep == 1

MaxBlinkerGrid == 8

MaxBlinkerStep == 2

(* Program constants *)

WORKGROUP_SIZE == 8

U32Half == 65536

---------------------------------------------------------------------------
(* 32-bit unsigned integers, kept as <<high half, low half>> so that       *)
(* 2^32 - 1 and its remainder are computed exactly.                        *)

U32Of(n) == <<n \div U32Half, n % U32Half>>

U32AddOne(u) ==
    IF u[2] + 1 < U32Half THEN <<u[1], u[2] + 1>>
    ELSE IF u[1] + 1 < U32Half THEN <<u[1] + 1, 0>>
    ELSE <<0, 0>>

U32SubOne(u) ==
    IF u[2] > 0 THEN <<u[1], u[2] - 1>>
    ELSE IF u[1] > 0 THEN <<u[1] - 1, U32Half - 1>>
    ELSE <<U32Half - 1, U32Half - 1>>

\* u % m for a u32 u and 0 < m < 2^15
U32Mod(u, m) == (((u[1] % m) * (U32Half % m)) + (u[2] % m)) % m

---------------------------------------------------------------------------
(* The compute shader *)

\* fn cellIndex(x : u32, y : u32) -> u32
cellIndex(gs, x, y) == (U32Mod(y, gs.y) * gs.x) + U32Mod(x, gs.x)

\* fn cellActive(x : u32, y : u32) -> u32
cellActive(gs, cellStateIn, x, y) == cellStateIn[cellIndex(gs, x, y)]

\* let activeNeighbors = ... : the eight lookups, in the order of the source
activeNeighbors(gs, cellStateIn, cell) ==
    LET xp == U32AddOne(cell.x)
        xm == U32SubOne(cell.x)
        yp == U32AddOne(cell.y)
        ym == U32SubOne(cell.y)
    IN  cellActive(gs, cellStateIn, xp, yp) +
        cellActive(gs, cellStateIn, xp, cell.y) +
        cellActive(gs, cellStateIn, xp, ym) +
        cellActive(gs, cellStateIn, cell.x, ym) +
        cellActive(gs, cellStateIn, xm, ym) +
        cellActive(gs, cellStateIn, xm, cell.y) +
        cellActive(gs, cellStateIn, xm, yp) +
        cellActive(gs, cellStateIn, cell.x, yp)

\* mutant: case 2u falls through into case 3u
conwayRule_Fallthrough(n, own) ==
    CASE n = 2 -> 1
      [] n = 3 -> 1
      [] OTHER -> 0

\* mutant: case 3u stores the neighbour count
conwayRule_StoreCount(n, own) ==
    CASE n = 2 -> own
      [] n = 3 -> n
      [] OTHER -> 0

\* mutant: the default case stores 1u
conwayRule_DefaultAlive(n, own) ==
    CASE n = 2 -> own
      [] n = 3 -> 1
      [] OTHER -> 1

\* mutant: a cell with no live neighbour keeps its state
conwayRule_LonelySurvives(n, own) ==
    CASE n = 2 -> own
      [] n = 3 -> 1
      [] n = 0 -> own
      [] OTHER -> 0

\* switch activeNeighbors { case 2u, case 3u, default }: the value stored
conwayRule(n, own) ==
    CASE n = 2 -> own
      [] n = 3 -> 1
      [] OTHER -> 0

\* fn computeMain(cell): the one store it makes, cellStateOut[i] = v
computeMain(gs, cellStateIn, cell) ==
    LET n == activeNeighbors(gs, cellStateIn, cell)
        i == cellIndex(gs, cell.x, cell.y)
    IN  [i |-> i, v |-> conwayRule(n, cellStateIn[i])]


---------------------------------------------------------------------------
(* Device resources *)

Cells(gs) == 0 .. (gs.x * gs.y - 1)

\* new Uint32Array(n), device.createBuffer: zero-filled
zeroBuffer(gs) == [i \in Cells(gs) |-> 0]

\* mutant: the second bind group binds buffer B at both bindings
bindGroups_SameBuffer ==
    (0 :> [cellStateIn |-> 0, cellStateOut |-> 1]) @@
    (1 :> [cellStateIn |-> 1, cellStateOut |-> 1])

\* bindGroups[k]: binding 1 (cellStateIn, and cellState of the render shader)
\* and binding 2 (cellStateOut) as indices into cellStateStorage
bindGroups ==
    (0 :> [cellStateIn |-> 0, cellStateOut |-> 1]) @@
    (1 :> [cellStateIn |-> 1, cellStateOut |-> 0])

\* mutant: Math.floor in place of Math.ceil
workgroupCount_Floor(GRID_SIZE) == GRID_SIZE \div WORKGROUP_SIZE

\* const workgroupCount = Math.ceil(GRID_SIZE / 8)
workgroupCount(GRID_SIZE) == (GRID_SIZE + (WORKGROUP_SIZE - 1)) \div WORKGROUP_SIZE

\* global_invocation_id of every invocation of dispatchWorkgroups(wx, wy)
Invocations(wx, wy) ==
    { [x |-> U32Of(cx), y |-> U32Of(cy)] :
        cx \in 0 .. (wx * WORKGROUP_SIZE - 1), cy \in 0 .. (wy * WORKGROUP_SIZE - 1) }

\* every store [i, v] some invocation of the dispatch makes
Stores(gs, cellStateIn, wx, wy) ==
    { computeMain(gs, cellStateIn, cell) : cell \in Invocations(wx, wy) }

\* The contents cellStateOut can have after the dispatch.  An index stored by
\* several invocations with different values is a data race: any of the
\* values may be the one that stays.  An index nobody stores keeps its value.
DispatchOutcomes(old, stores) ==
    LET written == { s.i : s \in stores }
        Cand(i) == { s.v : s \in { t \in stores : t.i = i } }
        raced == { i \in written : Cardinality(Cand(i)) > 1 }
        values == { s.v : s \in stores }
    IN  UNION { { [i \in DOMAIN old |->
                    IF i \in r THEN f[i]
                    ELSE IF i \in written THEN (CHOOSE s \in stores : s.i = i).v
                    ELSE old[i]] :
                  f \in { g \in [r -> values] : \A i \in r : g[i] \in Cand(i) } } :
                r \in {raced} }

---------------------------------------------------------------------------
(* Command encoding and submission *)

computeCmd(bg, wg) == [op |-> "compute", bindGroup |-> bg, buffer |-> -1, count |-> wg]

copyCmd(src) == [op |-> "copy", bindGroup |-> -1, buffer |-> src, count |-> 0]

renderCmd(bg) == [op |-> "render", bindGroup |-> bg, buffer |-> -1, count |-> 0]

\* mutant: the compute pass always binds bindGroups[0]
demoCommands_NoSwap(n, GRID_SIZE, flag) ==
    <<computeCmd(0, workgroupCount(GRID_SIZE))>>
        \o (IF flag THEN <<copyCmd(n % 2)>> ELSE <<>>)
        \o <<renderCmd((n + 1) % 2)>>

\* main.ts updateGrid: the commands encoded with step counter n and the flag
demoCommands(n, GRID_SIZE, flag) ==
    <<computeCmd(n % 2, workgroupCount(GRID_SIZE))>>
        \o (IF flag THEN <<copyCmd(n % 2)>> ELSE <<>>)
        \o <<renderCmd((n + 1) % 2)>>

\* mutant: the copy is encoded after step++, so its source is the write target
presentationCommands_CopyAfterIncrement(n, GRID_SIZE) ==
    <<computeCmd(n % 2, workgroupCount(GRID_SIZE)),
      copyCmd((n + 1) % 2),
      renderCmd((n + 1) % 2)>>

\* GameOfLife.vue updateGrid: the copy is encoded on every tick
presentationCommands(n, GRID_SIZE) ==
    <<computeCmd(n % 2, workgroupCount(GRID_SIZE)),
      copyCmd(n % 2),
      renderCmd((n + 1) % 2)>>

UsesPrintBuffer(cmds) == \E k \in 1 .. Len(cmds) : cmds[k].op = "copy"

\* device.queue.submit: a command buffer that uses a buffer with a map
\* pending or mapped is invalid, and none of its commands execute
SubmitAccepted(cmds, mapState) == ~(UsesPrintBuffer(cmds) /\ mapState = "pending")

\* One command on device memory mem = [storage, print, frame]; out is the
\* outcome of the dispatch, when the command is the compute pass
Execute(mem, cmd, out) ==
    CASE cmd.op = "compute" ->
            [mem EXCEPT !.storage[bindGroups[cmd.bindGroup].cellStateOut] = out]
      [] cmd.op = "copy" ->
            [mem EXCEPT !.print = mem.storage[cmd.buffer]]
      [] cmd.op = "render" ->
            [mem EXCEPT !.frame = mem.storage[bindGroups[cmd.bindGroup].cellStateIn]]

RECURSIVE Run(_, _, _)
Run(mem, cmds, out) ==
    IF cmds = <<>> THEN mem
    ELSE Run(Execute(mem, Head(cmds), out), Tail(cmds), out)

\* what the compute pass of cmds may leave in its cellStateOut, run on mem
ComputeOutcomes(gs, mem, cmds) ==
    LET c == cmds[CHOOSE k \in 1 .. Len(cmds) : cmds[k].op = "compute"]
        bg == bindGroups[c.bindGroup]
    IN  UNION { DispatchOutcomes(mem.storage[bg.cellStateOut], stores) :
                  stores \in {Stores(gs, mem.storage[bg.cellStateIn], c.count, c.count)} }

\* console.log(stateStr): GRID_SIZE cells per row, glyphs for 0 and 1, rows reversed
Glyph(v) == CASE v = 0 -> "black" [] v = 1 -> "red" [] OTHER -> "digits"

stateStr(currentState, GRID_SIZE) ==
    LET rows == (Cardinality(DOMAIN currentState) + GRID_SIZE - 1) \div GRID_SIZE
        last(r) == IF GRID_SIZE + GRID_SIZE * r < Cardinality(DOMAIN currentState)
                   THEN GRID_SIZE + GRID_SIZE * r
                   ELSE Cardinality(DOMAIN currentState)
        row(r) == [k \in 1 .. (last(r) - GRID_SIZE * r) |->
                     Glyph(currentState[GRID_SIZE * r + k - 1])]
    IN  [r \in 1 .. rows |-> row(rows - r)]


---------------------------------------------------------------------------
(* Reset *)

\* The Math.random() draws of one reset, by stride position k (index 3k).
\* Draws at positions from MaxSeedDraws on come out dead.
SeedDraws(gs) ==
    [ { k \in 0 .. (MaxSeedDraws - 1) : 3 * k < gs.x * gs.y } -> {0, 1} ]

\* mutant: the first loop runs with stride 1
randomized_EveryCell(arr, draws) ==
    [i \in DOMAIN arr |->
        IF (i \div 3) \in DOMAIN draws THEN draws[i \div 3] ELSE 0]

\* for (let i = 0; i < cellStateArray.length; i += 3) cellStateArray[i] = ...
randomized(arr, draws) ==
    [i \in DOMAIN arr |->
        IF i % 3 = 0
        THEN (IF (i \div 3) \in DOMAIN draws THEN draws[i \div 3] ELSE 0)
        ELSE arr[i]]

\* mutant: the second loop leaves the array as the first loop filled it
zeroed_Skipped(arr) == arr

\* for (let i = 0; i < cellStateArray.length; i++) cellStateArray[i] = 0
zeroed(arr) == [i \in DOMAIN arr |-> 0]

\* history: no tick since the last reset
NoTick == [n |-> -1, cmds |-> <<>>, accepted |-> FALSE]

\* resetState() of main.ts and reset() of GameOfLife.vue
ResetBuffers(draws) ==
    LET first == randomized(cellStateArray, draws)
        second == zeroed(first)
    IN  /\ cellStateStorage' = [cellStateStorage EXCEPT ![0] = first, ![1] = second]
        /\ cellStateArray' = second
        /\ seed' = first
        /\ lastTick' = NoTick
        /\ step' = 0

GridSizes == { n \in 1 .. MaxGridSize : \E e \in 0 .. 15 : n = 2 ^ e }

KernelGridSizes == 1 .. MaxKernelGrid

\* the read buffers of the kernel specification: at most MaxKernelLive live cells
KernelBuffers(gs) ==
    { b \in [Cells(gs) -> {0, 1}] :
        Cardinality({ i \in Cells(gs) : b[i] = 1 }) <= MaxKernelLive }

\* the state after construction: buffers created, reset called once
Init ==
    /\ driver \in {"demo", "presentation"}
    /\ \E g \in GridSizes : gridSize = [x |-> g, y |-> g]
    /\ \E draws \in SeedDraws(gridSize) :
          LET first == randomized(zeroBuffer(gridSize), draws)
          IN  /\ cellStateStorage = (0 :> first) @@ (1 :> zeroed(first))
              /\ seed = first
    /\ cellStateArray = zeroBuffer(gridSize)
    /\ cellPrintState = zeroBuffer(gridSize)
    /\ printMapState = "unmapped"
    /\ step = 0
    /\ printStateThisFrame = FALSE
    /\ frame = <<>>
    /\ consoleLog = <<>>
    /\ lastTick = NoTick

\* the reset button of the demo
resetState ==
    /\ driver = "demo"
    /\ \E draws \in SeedDraws(gridSize) : ResetBuffers(draws)
    /\ UNCHANGED <<driver, gridSize, cellPrintState, printMapState,
                   printStateThisFrame>>
    /\ frame' = <<>>
    /\ consoleLog' = <<>>

\* the reset button of the component
reset ==
    /\ driver = "presentation"
    /\ \E draws \in SeedDraws(gridSize) : ResetBuffers(draws)
    /\ UNCHANGED <<driver, gridSize, cellPrintState, printMapState,
                   printStateThisFrame>>
    /\ frame' = <<>>
    /\ consoleLog' = <<>>

---------------------------------------------------------------------------
(* Ticks *)

\* encode, step++, submit: the device memory after the command buffer cmds
Submit(cmds) ==
    LET mem == [storage |-> cellStateStorage, print |-> cellPrintState, frame |-> <<>>]
        ok == SubmitAccepted(cmds, printMapState)
    IN  /\ lastTick' = [n |-> step, cmds |-> cmds, accepted |-> ok]
        /\ step' = step + 1
        /\ IF ok
           THEN \E out \in ComputeOutcomes(gridSize, mem, cmds) :
                   LET after == Run(mem, cmds, out)
                   IN  /\ cellStateStorage' = after.storage
                       /\ cellPrintState' = after.print
                       /\ frame' = after.frame
           ELSE /\ UNCHANGED <<cellStateStorage, cellPrintState>>
                /\ frame' = <<>>

\* main.ts updateGrid, up to the await of mapAsync
updateGrid ==
    /\ driver = "demo"
    /\ step < MaxStep
    /\ Submit(demoCommands(step, gridSize.x, printStateThisFrame))
    /\ printStateThisFrame' = FALSE
    /\ printMapState' = IF printStateThisFrame THEN "pending" ELSE printMapState
    /\ consoleLog' = <<>>
    /\ UNCHANGED <<driver, gridSize, cellStateArray, seed>>

\* GameOfLife.vue updateGrid
updateGridPresentation ==
    /\ driver = "presentation"
    /\ step < MaxStep
    /\ Submit(presentationCommands(step, gridSize.x))
    /\ consoleLog' = <<>>
    /\ UNCHANGED <<driver, gridSize, cellStateArray, printMapState,
                   printStateThisFrame, seed>>

---------------------------------------------------------------------------
(* Snapshots *)

\* the print button of the demo
printStateClick ==
    /\ driver = "demo"
    /\ printStateThisFrame' = TRUE
    /\ frame' = <<>>
    /\ consoleLog' = <<>>
    /\ UNCHANGED <<driver, gridSize, cellStateArray, cellStateStorage,
                   cellPrintState, printMapState, step, seed, lastTick>>

\* the print button of the component: printState() up to its await.  A
\* mapAsync on a buffer whose map is pending is rejected and changes nothing.
printState ==
    /\ driver = "presentation"
    /\ printMapState' = "pending"
    /\ frame' = <<>>
    /\ consoleLog' = <<>>
    /\ UNCHANGED <<driver, gridSize, cellStateArray, cellStateStorage,
                   cellPrintState, step, printStateThisFrame, seed, lastTick>>

\* mapAsync resolves: getMappedRange, slice, console.log, unmap
mapResolved ==
    /\ printMapState = "pending"
    /\ consoleLog' = stateStr(cellPrintState, gridSize.x)
    /\ printMapState' = "unmapped"
    /\ frame' = <<>>
    /\ UNCHANGED <<driver, gridSize, cellStateArray, cellStateStorage,
                   cellPrintState, step, printStateThisFrame, seed, lastTick>>

Next ==
    \/ resetState
    \/ reset
    \/ updateGrid
    \/ updateGridPresentation
    \/ printStateClick
    \/ printState
    \/ mapResolved

Spec == Init /\ [][Next]_vars

---------------------------------------------------------------------------
(* The kernel on its own: every grid size up to MaxKernelGrid, every 0/1   *)
(* read buffer with at most MaxKernelLive live cells, ticked by the demo's *)
(* updateGrid.                                                             *)

KernelInit ==
    /\ driver = "demo"
    /\ \E g \in KernelGridSizes : gridSize = [x |-> g, y |-> g]
    /\ \E first \in KernelBuffers(gridSize) :
          /\ cellStateStorage = (0 :> first) @@ (1 :> zeroed(first))
          /\ seed = first
    /\ cellStateArray = zeroBuffer(gridSize)
    /\ cellPrintState = zeroBuffer(gridSize)
    /\ printMapState = "unmapped"
    /\ step = 0
    /\ printStateThisFrame = FALSE
    /\ frame = <<>>
    /\ consoleLog = <<>>
    /\ lastTick = NoTick

KernelNext == step < MaxKernelStep /\ updateGrid

KernelSpec == KernelInit /\ [][KernelNext]_vars


---------------------------------------------------------------------------
(* The blinker: a horizontal three-in-a-row seeded into buffer A, on grids *)
(* where the pattern and its neighbourhood stay clear of the edges, ticked *)
(* by either driver.                                                       *)

BlinkerGridSizes == 5 .. MaxBlinkerGrid

\* three live cells in row cy, columns cx - 1 .. cx + 1
horizontalBlinker(gs, cx, cy) ==
    [i \in Cells(gs) |->
        IF (i \div gs.x) = cy /\ (i % gs.x) \in (cx - 1) .. (cx + 1) THEN 1 ELSE 0]

BlinkerInit ==
    /\ driver \in {"demo", "presentation"}
    /\ \E g \in BlinkerGridSizes : gridSize = [x |-> g, y |-> g]
    /\ \E cx \in 2 .. (gridSize.x - 3), cy \in 2 .. (gridSize.y - 3) :
          /\ cellStateStorage =
                (0 :> horizontalBlinker(gridSize, cx, cy)) @@ (1 :> zeroBuffer(gridSize))
          /\ seed = horizontalBlinker(gridSize, cx, cy)
    /\ cellStateArray = zeroBuffer(gridSize)
    /\ cellPrintState = zeroBuffer(gridSize)
    /\ printMapState = "unmapped"
    /\ step = 0
    /\ printStateThisFrame = FALSE
    /\ frame = <<>>
    /\ consoleLog = <<>>
    /\ lastTick = NoTick

BlinkerNext ==
    /\ step < MaxBlinkerStep
    /\ (updateGrid \/ updateGridPresentation)

BlinkerSpec == BlinkerInit /\ [][BlinkerNext]_vars

---------------------------------------------------------------------------
(* Vocabulary of the properties *)

\* the compute pass of a command buffer
ComputeOf(cmds) == cmds[CHOOSE k \in 1 .. Len(cmds) : cmds[k].op = "compute"]

\* indices into cellStateStorage of the buffers the last tick bound
ReadIndex == bindGroups[ComputeOf(lastTick.cmds).bindGroup].cellStateIn

WriteIndex == bindGroups[ComputeOf(lastTick.cmds).bindGroup].cellStateOut

\* this step is a tick (a reset leaves NoTick behind)
TickTaken == lastTick' # lastTick /\ lastTick' # NoTick

\* the last step was a tick whose command buffer the queue executed
TickExecuted == lastTick # NoTick /\ lastTick.accepted

\* the cell (x, y) as the invocation with that global_invocation_id
CellAt(x, y) == [x |-> U32Of(x), y |-> U32Of(y)]

\* the invocations of the last tick's dispatch that store to index i
Writers(i) ==
    { cell \in Invocations(ComputeOf(lastTick.cmds).count, ComputeOf(lastTick.cmds).count) :
        cellIndex(gridSize, cell.x, cell.y) = i }

\* Conway's Game of Life on a W x H torus, by the book
Wrap(v, m) == ((v % m) + m) % m

TorusAt(gs, b, x, y) == b[Wrap(y, gs.y) * gs.x + Wrap(x, gs.x)]

TorusCount(gs, b, x, y) ==
    TorusAt(gs, b, x + 1, y + 1) + TorusAt(gs, b, x + 1, y) +
    TorusAt(gs, b, x + 1, y - 1) + TorusAt(gs, b, x, y - 1) +
    TorusAt(gs, b, x - 1, y - 1) + TorusAt(gs, b, x - 1, y) +
    TorusAt(gs, b, x - 1, y + 1) + TorusAt(gs, b, x, y + 1)

ConwayNext(gs, b) ==
    [i \in Cells(gs) |->
        LET n == TorusCount(gs, b, i % gs.x, i \div gs.x)
        IN  IF n = 3 THEN 1 ELSE IF n = 2 THEN b[i] ELSE 0]

RECURSIVE ConwayGeneration(_, _, _)
ConwayGeneration(gs, b, k) ==
    IF k = 0 THEN b ELSE ConwayGeneration(gs, ConwayNext(gs, b), k - 1)

---------------------------------------------------------------------------
(* C1: in every executed tick, each cell of the write buffer holds the     *)
(* value Conway's table gives for the live-neighbour count an invocation   *)
(* storing to that cell took from the read buffer: the cell's own previous *)
(* value for a count of 2, 1 for a count of 3, 0 for any other count.      *)
C1_DecisionTable ==
    [][ (TickTaken /\ lastTick'.accepted) =>
          LET c == ComputeOf(lastTick'.cmds)
              in == cellStateStorage[bindGroups[c.bindGroup].cellStateIn]
              out == cellStateStorage'[bindGroups[c.bindGroup].cellStateOut]
          IN  \A counts \in { { [i |-> cellIndex(gridSize, cell.x, cell.y),
                                   n |-> activeNeighbors(gridSize, in, cell)] :
                                  cell \in Invocations(c.count, c.count) } } :
              \A i \in Cells(gridSize) :
                \E t \in counts :
                   /\ t.i = i
                   /\ t.n = 2 => out[i] = in[i]
                   /\ t.n = 3 => out[i] = 1
                   /\ t.n \notin {2, 3} => out[i] = 0 ]_vars

\* a tick in which a live cell with 2 neighbours stayed alive, a dead cell
\* with 3 was born and a live cell with another count died
C1_Witness ==
    /\ TickExecuted
    /\ LET in == cellStateStorage[ReadIndex]
           out == cellStateStorage[WriteIndex]
           n(i) == activeNeighbors(gridSize, in, CellAt(i % gridSize.x, i \div gridSize.x))
       IN  /\ \E i \in Cells(gridSize) : n(i) = 2 /\ in[i] = 1 /\ out[i] = 1
           /\ \E i \in Cells(gridSize) : n(i) = 3 /\ in[i] = 0 /\ out[i] = 1
           /\ \E i \in Cells(gridSize) : n(i) \notin {2, 3} /\ in[i] = 1 /\ out[i] = 0

---------------------------------------------------------------------------
(* C2: on every W x H grid the neighbour lookup is toroidal under u32      *)
(* arithmetic: x - 1 at x = 0 resolves to column W - 1, y - 1 at y = 0 to  *)
(* row H - 1 (so (0,0) has (W-1, H-1) as a neighbour), and x + 1 at        *)
(* x = W - 1 resolves to column 0.                                         *)
C2_ToroidalLookup ==
    TickExecuted =>
       LET W == gridSize.x
           H == gridSize.y
           zero == U32Of(0)
       IN  /\ cellIndex(gridSize, U32SubOne(zero), U32SubOne(zero)) = (H - 1) * W + (W - 1)
           /\ \A y \in 0 .. (H - 1) :
                 /\ cellIndex(gridSize, U32SubOne(zero), U32Of(y)) = y * W + (W - 1)
                 /\ cellIndex(gridSize, U32AddOne(U32Of(W - 1)), U32Of(y)) = y * W
           /\ \A x \in 0 .. (W - 1) :
                 /\ cellIndex(gridSize, U32Of(x), U32SubOne(zero)) = (H - 1) * W + x
                 /\ cellIndex(gridSize, U32Of(x), U32AddOne(U32Of(H - 1))) = x

---------------------------------------------------------------------------
(* C5: one dispatch of ceil(GRID_SIZE/8) x ceil(GRID_SIZE/8) workgroups    *)
(* stores to every index of the write buffer, and to each index from       *)
(* exactly one invocation.                                                 *)
C5_OneWriterPerCell ==
    TickExecuted => \A i \in Cells(gridSize) : Cardinality(Writers(i)) = 1

---------------------------------------------------------------------------
(* C6: for a given read buffer and grid size, every ordering of the        *)
(* invocations of one dispatch leaves the same write buffer.               *)
C6_Deterministic ==
    TickExecuted =>
       Cardinality(
          UNION { DispatchOutcomes(zeroBuffer(gridSize), stores) :
                    stores \in { Stores(gridSize, cellStateStorage[ReadIndex],
                                        ComputeOf(lastTick.cmds).count,
                                        ComputeOf(lastTick.cmds).count) } }) = 1

---------------------------------------------------------------------------
(* C3: a tick with step counter n binds cellStateStorage[n mod 2] as the   *)
(* read buffer and cellStateStorage[(n+1) mod 2] as the write buffer and   *)
(* then increments the counter by exactly 1; from one tick to the next     *)
(* without a reset the two roles swap, and one buffer never has both.      *)
C3_RolesAlternate ==
    [][ TickTaken =>
          LET bg == bindGroups[ComputeOf(lastTick'.cmds).bindGroup]
          IN  /\ lastTick'.n = step
              /\ step' = step + 1
              /\ bg.cellStateIn = step % 2
              /\ bg.cellStateOut = (step + 1) % 2
              /\ bg.cellStateIn # bg.cellStateOut
              /\ lastTick # NoTick =>
                    /\ bg.cellStateIn = WriteIndex
                    /\ bg.cellStateOut = ReadIndex ]_vars

\* two executed ticks in a row: the second read what the first wrote
C3_Witness ==
    /\ TickExecuted
    /\ step = 2
    /\ ReadIndex = 1
    /\ WriteIndex = 0
    /\ cellStateStorage[0] # cellStateStorage[1]

---------------------------------------------------------------------------
(* C4: a tick leaves the buffer bound as cellStateIn as it was, and what   *)
(* an executed tick leaves in the buffer bound as cellStateOut is computed *)
(* from the read buffer's contents at the start of the tick.               *)
C4_ReadBufferUnchanged ==
    [][ TickTaken =>
          LET c == ComputeOf(lastTick'.cmds)
              r == bindGroups[c.bindGroup].cellStateIn
              w == bindGroups[c.bindGroup].cellStateOut
          IN  /\ cellStateStorage'[r] = cellStateStorage[r]
              /\ lastTick'.accepted =>
                    \E stores \in { Stores(gridSize, cellStateStorage[r], c.count, c.count) } :
                       cellStateStorage'[w] \in DispatchOutcomes(cellStateStorage[w], stores) ]_vars

\* an executed tick that read a live generation and wrote another one
C4_Witness ==
    /\ TickExecuted
    /\ \E i \in Cells(gridSize) : cellStateStorage[ReadIndex][i] = 1
    /\ \E i \in Cells(gridSize) : cellStateStorage[WriteIndex][i] = 1
    /\ cellStateStorage[ReadIndex] # cellStateStorage[WriteIndex]

---------------------------------------------------------------------------
(* C7: k ticks after a reset, with no reset in between, the buffer bound   *)
(* for rendering by the k-th tick holds the k-th Conway generation of the  *)
(* seed the reset wrote into buffer A.                                     *)
C7_KthGeneration ==
    lastTick # NoTick =>
       cellStateStorage[bindGroups[lastTick.cmds[Len(lastTick.cmds)].bindGroup].cellStateIn]
          = ConwayGeneration(gridSize, seed, step)

---------------------------------------------------------------------------
(* C8: the snapshot a tick captures is a copy of the generation that tick  *)
(* wrote, the one its render pass displays.                                *)
C8_SnapshotIsWrittenGeneration ==
    (TickExecuted /\ UsesPrintBuffer(lastTick.cmds) /\ frame # <<>>) =>
        /\ cellPrintState = frame
        /\ cellPrintState = cellStateStorage[WriteIndex]

---------------------------------------------------------------------------
(* C9: requesting, mapping, reading and unmapping a snapshot change        *)
(* neither the step counter nor a generation buffer, and a tick produces   *)
(* the generation it would produce with no snapshot requested or pending.  *)
C9_SnapshotSideEffectFree ==
    [][ /\ (printStateClick \/ printState \/ mapResolved) =>
              UNCHANGED <<step, cellStateStorage>>
        /\ TickTaken =>
              LET c == ComputeOf(lastTick'.cmds)
                  r == bindGroups[c.bindGroup].cellStateIn
                  w == bindGroups[c.bindGroup].cellStateOut
              IN  /\ cellStateStorage'[r] = cellStateStorage[r]
                  /\ \E stores \in { Stores(gridSize, cellStateStorage[r], c.count, c.count) } :
                        cellStateStorage'[w] \in DispatchOutcomes(cellStateStorage[w], stores) ]_vars

---------------------------------------------------------------------------
(* C10: the source of a tick's copy into the print buffer is not the       *)
(* buffer that tick's compute pass writes, the copy comes after the        *)
(* compute pass in the command buffer, and the print buffer then holds the *)
(* source's contents.                                                      *)
C10_CopySourceNotWritten ==
    lastTick # NoTick =>
       \A k \in 1 .. Len(lastTick.cmds) :
          lastTick.cmds[k].op = "copy" =>
             /\ \E j \in 1 .. (k - 1) : lastTick.cmds[j].op = "compute"
             /\ \A j \in 1 .. Len(lastTick.cmds) :
                   lastTick.cmds[j].op = "compute" =>
                      /\ j < k
                      /\ lastTick.cmds[k].buffer #
                            bindGroups[lastTick.cmds[j].bindGroup].cellStateOut
             /\ (lastTick.accepted /\ frame # <<>>) =>
                   cellPrintState = cellStateStorage[lastTick.cmds[k].buffer]

\* an executed tick with a copy, whose print buffer differs from the
\* generation the tick wrote
C10_Witness ==
    /\ TickExecuted
    /\ UsesPrintBuffer(lastTick.cmds)
    /\ frame # <<>>
    /\ cellPrintState = cellStateStorage[ReadIndex]
    /\ cellPrintState # cellStateStorage[WriteIndex]

---------------------------------------------------------------------------
(* C11: in every reachable state every cell of both generation buffers is  *)
(* 0 or 1, and the live-neighbour count a step computes for any cell of    *)
(* the grid, from either buffer, lies in 0..8.                             *)
C11_CellsBinary ==
    \A b \in {0, 1} :
       \A i \in Cells(gridSize) :
          /\ cellStateStorage[b][i] \in {0, 1}
          /\ activeNeighbors(gridSize, cellStateStorage[b],
                             CellAt(i % gridSize.x, i \div gridSize.x)) \in 0 .. 8

\* an executed tick that counted 3 neighbours somewhere and wrote a live cell
C11_Witness ==
    /\ TickExecuted
    /\ \E i \in Cells(gridSize) :
          /\ activeNeighbors(gridSize, cellStateStorage[ReadIndex],
                             CellAt(i % gridSize.x, i \div gridSize.x)) = 3
          /\ cellStateStorage[ReadIndex][i] = 0
          /\ cellStateStorage[WriteIndex][i] = 1

---------------------------------------------------------------------------
(* C12: a reset at any point (the initial one, one between two ticks, one  *)
(* while a readback is pending) leaves buffer B all zeros and the step     *)
(* counter at 0, and the first tick after it reads buffer A and writes     *)
(* buffer B.                                                               *)
C12_ResetZeroesB ==
    /\ lastTick = NoTick =>
          /\ step = 0
          /\ cellStateStorage[1] = zeroBuffer(gridSize)
    /\ (lastTick # NoTick /\ step = 1) =>
          /\ lastTick.n = 0
          /\ ReadIndex = 0
          /\ WriteIndex = 1

\* the demo after a reset that came while a readback was pending, with a
\* live seed; only a tick starts a readback in the demo
C12_Witness ==
    /\ driver = "demo"
    /\ printMapState = "pending"
    /\ lastTick = NoTick
    /\ step = 0
    /\ cellStateStorage[1] = zeroBuffer(gridSize)
    /\ cellStateStorage[0] # zeroBuffer(gridSize)
    /\ cellPrintState # zeroBuffer(gridSize)

---------------------------------------------------------------------------
(* C13: after every reset, the first and every later one, each cell of     *)
(* buffer A at a flat index that is not a multiple of 3 is dead; the host  *)
(* array cellStateArray is zero at those indices whenever a reset starts.  *)
C13_OnlyEveryThirdAlive ==
    \A i \in Cells(gridSize) :
       i % 3 # 0 =>
          /\ cellStateArray[i] = 0
          /\ seed[i] = 0
          /\ lastTick = NoTick => cellStateStorage[0][i] = 0

\* a later reset: buffer A was overwritten by a tick since, and holds a new
\* seed with live cells at indices 0 and 3
C13_Witness ==
    /\ lastTick = NoTick
    /\ Cardinality(Cells(gridSize)) > 3
    /\ cellStateStorage[0] = seed
    /\ seed[0] = 1
    /\ seed[3] = 1
    /\ \E i \in Cells(gridSize) : i % 3 # 0 /\ cellPrintState[i] = 1

---------------------------------------------------------------------------
(* C14: the all-dead grid is a fixed point: on every grid size, a tick     *)
(* that reads an all-zero buffer leaves an all-zero write buffer, so a     *)
(* run seeded all dead has both buffers all zero after every tick.         *)
C14_AllDeadFixedPoint ==
    /\ seed = zeroBuffer(gridSize) =>
          /\ cellStateStorage[0] = zeroBuffer(gridSize)
          /\ cellStateStorage[1] = zeroBuffer(gridSize)
    /\ (TickExecuted /\ cellStateStorage[ReadIndex] = zeroBuffer(gridSize)) =>
          cellStateStorage[WriteIndex] = zeroBuffer(gridSize)

\* an executed tick on the 3x3 grid that read and wrote all zeros
C14_Witness ==
    /\ TickExecuted
    /\ gridSize.x = 3
    /\ seed = zeroBuffer(gridSize)
    /\ cellStateStorage[ReadIndex] = zeroBuffer(gridSize)
    /\ cellStateStorage[WriteIndex] = zeroBuffer(gridSize)

---------------------------------------------------------------------------
(* C15: a horizontal three-cell blinker clear of the grid's edges becomes  *)
(* the vertical three-in-a-row through the same centre after one step and  *)
(* is the horizontal pattern again after two steps, all other cells dead.  *)
C15_BlinkerPeriodTwo ==
    \E cx \in 0 .. (gridSize.x - 1), cy \in 0 .. (gridSize.y - 1) :
       /\ seed = horizontalBlinker(gridSize, cx, cy)
       /\ step % 2 = 0 => cellStateStorage[step % 2] = seed
       /\ step % 2 = 1 =>
             cellStateStorage[step % 2] =
                [i \in Cells(gridSize) |->
                    IF (i % gridSize.x) = cx /\ (i \div gridSize.x) \in (cy - 1) .. (cy + 1)
                    THEN 1 ELSE 0]

---------------------------------------------------------------------------
(* C16: on the 3x3 grid whose only live cell is (1,1), one step leaves a   *)
(* write buffer that is entirely dead.                                     *)
C16_LoneCellDies ==
    (/\ TickExecuted
     /\ gridSize = [x |-> 3, y |-> 3]
     /\ cellStateStorage[ReadIndex] = [i \in Cells(gridSize) |-> IF i = 4 THEN 1 ELSE 0])
       => cellStateStorage[WriteIndex] = zeroBuffer(gridSize)

\* the tick on the 3x3 grid that read the lone cell at (1,1)
C16_Witness ==
    /\ TickExecuted
    /\ gridSize = [x |-> 3, y |-> 3]
    /\ cellStateStorage[ReadIndex][4] = 1
    /\ \A i \in Cells(gridSize) \ {4} : cellStateStorage[ReadIndex][i] = 0
    /\ \A i \in Cells(gridSize) : cellStateStorage[WriteIndex][i] = 0

---------------------------------------------------------------------------
---------------------------------------------------------------------------
(* C18: no tick submits a copy into the print buffer while that buffer has *)
(* a mapping pending or is mapped, no mapAsync starts while an earlier one *)
(* is pending or mapped, and so every tick's submission is executed.       *)
C18_NoMappingHazard ==
    [][ /\ TickTaken =>
              /\ UsesPrintBuffer(lastTick'.cmds) => printMapState = "unmapped"
              /\ lastTick'.accepted
              /\ printStateThisFrame => printMapState = "unmapped"
        /\ printState => printMapState = "unmapped" ]_vars

---------------------------------------------------------------------------
(* C19: in the demo a capture request is consumed by the very next tick:   *)
(* that tick encodes exactly one copy to the print buffer, clears the flag *)
(* and captures the snapshot its readback prints; a tick that starts with  *)
(* the flag unset encodes no copy and starts no readback; and requests do  *)
(* nothing but set the flag, so any number of them before a tick yield one *)
(* snapshot.                                                               *)
C19_RequestConsumedOnce ==
    [][ /\ (driver = "demo" /\ TickTaken) =>
              LET copies == { k \in 1 .. Len(lastTick'.cmds) : lastTick'.cmds[k].op = "copy" }
              IN  IF printStateThisFrame
                  THEN /\ Cardinality(copies) = 1
                       /\ printStateThisFrame' = FALSE
                       /\ printMapState = "unmapped"
                       /\ printMapState' = "pending"
                       /\ lastTick'.accepted
                       /\ \A k \in copies :
                             cellPrintState' = cellStateStorage[lastTick'.cmds[k].buffer]
                  ELSE /\ copies = {}
                       /\ printStateThisFrame' = FALSE
                       /\ printMapState' = printMapState
                       /\ cellPrintState' = cellPrintState
                       /\ consoleLog' = <<>>
        /\ printStateClick =>
              /\ printStateThisFrame' = TRUE
              /\ UNCHANGED <<cellStateStorage, cellPrintState, printMapState, step>> ]_vars

=============================================================================
